---------------------------- MODULE Spec2Model ----------------------------
(***************************************************************************)
(* Model of era_temp_overlay.py: overlay of point observations on a        *)
(* monthly ERA-5 raster.  The script is a straight-line module-level       *)
(* program; pc is its position.  Real numbers are fixed-point integers in  *)
(* units of 10^-5 (273.15 is 27315000, 0.001 is 100).  Python None is the  *)
(* value None, a float x is Float(x), a str is a TLA+ string except for    *)
(* the raw observation dates, which are sequences of Unicode code points   *)
(* (47 is "/", 48 is "0") so that strip() and strptime() can be modelled   *)
(* on their text.                                                          *)
(***************************************************************************)
EXTENDS Integers, Sequences, FiniteSets, TLC

VARIABLES
    varname,        \* configuration: name of the variable in the raster
    startdate,      \* configuration: first period of the raster, <<year, month>>
    point_data,     \* the point dataset: sequence of rows [id, name, date, x, y]
    raster,         \* the raster file: [count, variable, height, width, west, north, cell]
    pc,             \* position of the script
    yearmonth,      \* np.datetime64 with unit M: months since 1970-01
    result_dict,    \* dict of dicts, in insertion order: sequence of <<key, dict>>
    idx,            \* position of the running loop (point number or band number)
    result_list,    \* the table assembled for output
    opens,          \* number of times the raster file has been opened
    reads,          \* the raster cells read so far: set of <<band, row, col>>
    csv,            \* rows written to the output CSV file, None when no file
    stdout,         \* messages printed
    exit_status,    \* process exit status, None while running
    arg_value,      \* unit conversion alone: the raw value
    newval          \* unit conversion alone: the converted value

vars == <<varname, startdate, point_data, raster, pc, yearmonth, result_dict,
          idx, result_list, opens, reads, csv, stdout, exit_status,
          arg_value, newval>>

(***************************************************************************)
(* Bounds of the model.                                                    *)
(***************************************************************************)
MaxPoints == 2      \* rows of the point dataset
MaxBands == 3       \* bands of the raster
MaxRaw == 120       \* raw values tried by the unit conversion alone

(***************************************************************************)
(* Python values.                                                          *)
(***************************************************************************)
None == <<"None">>
Float(x) == <<"float", x>>

\* Mutant: a new key goes first.
DictSet_new_first(d, k, v) ==
    IF \E i \in 1..Len(d) : d[i][1] = k
    THEN [i \in 1..Len(d) |-> IF d[i][1] = k THEN <<k, v>> ELSE d[i]]
    ELSE << <<k, v>> >> \o d

\* d[k] = v on a Python dict kept as a sequence of <<key, value>> pairs in
\* insertion order: an existing key keeps its place, a new key goes last.
DictSet(d, k, v) ==
    IF \E i \in 1..Len(d) : d[i][1] = k
    THEN [i \in 1..Len(d) |-> IF d[i][1] = k THEN <<k, v>> ELSE d[i]]
    ELSE Append(d, <<k, v>>)

DictHas(d, k) == \E i \in 1..Len(d) : d[i][1] = k

DictGet(d, k) == d[CHOOSE i \in 1..Len(d) : d[i][1] = k][2]

DictKeys(d) == [i \in 1..Len(d) |-> d[i][1]]

DictValues(d) == [i \in 1..Len(d) |-> d[i][2]]

(***************************************************************************)
(* Configuration (lines 44-58).                                            *)
(***************************************************************************)
obnum == "OBS_NUM"
obname == "OBS_NAME"
obdate == "OBS_DATE"
standard_date == FALSE

(***************************************************************************)
(* convert_units (lines 62-71), on fixed-point values.                     *)
(***************************************************************************)
KelvinOffset == 27215000
PrecipFactor == 1000

convert_units(vn, value) ==
    IF vn = "temp" THEN value - KelvinOffset
    ELSE IF vn = "precip" THEN value * PrecipFactor
    ELSE value

\* round(x, 4): the nearest multiple of 10^-4 (10 units).  round() works on
\* the binary float, which is never the decimal half itself: when the fifth
\* decimal of the fixed-point value is 5 the result is the upper neighbour
\* if the float lies above the half (round(0.00005, 4) is 0.0001) and the
\* lower one if it lies below (round(0.00015, 4) is 0.0001).  The fixed-point
\* value does not tell which; above says it.
round4(x, above) ==
    LET q == x \div 10
        r == x % 10
    IN  IF r < 5 THEN 10 * q
        ELSE IF r > 5 THEN 10 * (q + 1)
        ELSE IF above THEN 10 * (q + 1) ELSE 10 * q

(***************************************************************************)
(* np.datetime64 with unit M and its text (lines 74, 122, 127, 137).       *)
(***************************************************************************)
\* np.datetime64('YYYY-MM'): months since 1970-01.
datetime64_M(ym) == (ym[1] - 1970) * 12 + (ym[2] - 1)

Pad(n, width) ==
    LET s == ToString(n)
    IN  IF Len(s) >= width THEN s
        ELSE IF Len(s) = width - 1 THEN "0" \o s
        ELSE IF Len(s) = width - 2 THEN "00" \o s
        ELSE "000" \o s

\* Mutant: the year turns one month late.
str_datetime64_M_late_year(n) ==
    Pad(1970 + ((n - 1) \div 12), 4) \o "-" \o Pad((n % 12) + 1, 2)

\* str() of a datetime64[M]: 'YYYY-MM'.
str_datetime64_M(n) == Pad(1970 + (n \div 12), 4) \o "-" \o Pad((n % 12) + 1, 2)

period_key(n) == "YM-" \o str_datetime64_M(n)

(***************************************************************************)
(* Reading the observation date (lines 132-137).                           *)
(***************************************************************************)
\* An exception raised instead of a value returned.
Raised(e) == <<"raise", e>>
ValueError == Raised("ValueError")
TypeError == Raised("TypeError")
IndexError == Raised("IndexError")
StopIteration == Raised("StopIteration")

\* The zero of every run of ten decimal digits of Unicode (category Nd): \d
\* of a str pattern and int() take them all.  48 is "0", 65296 the
\* fullwidth zero.
DigitZeros ==
    {48, 1632, 1776, 1984, 2406, 2534, 2662, 2790, 2918, 3046, 3174, 3302,
     3430, 3558, 3664, 3792, 3872, 4160, 4240, 6112, 6160, 6470, 6608,
     6784, 6800, 6992, 7088, 7232, 7248, 42528, 43216, 43264, 43472, 43504,
     43600, 44016, 65296, 66720, 68912, 69734, 69872, 69942, 70096, 70384,
     70736, 70864, 71248, 71360, 71472, 71904, 72016, 72784, 73040, 73120,
     92768, 92864, 93008, 120782, 120792, 120802, 120812, 120822, 123200,
     123632, 125264, 130032}

Digits == UNION {z..(z + 9) : z \in DigitZeros}

\* The ASCII digits "1" to "9", which the patterns write [1-9].
Digits1to9 == 49..57

DigitVal(c) == c - (CHOOSE z \in DigitZeros : c \in z..(z + 9))

AllDigits(f) == \A i \in 1..Len(f) : f[i] \in Digits

\* int() of a text of decimal digits.
RECURSIVE NumVal(_)
NumVal(f) ==
    IF Len(f) = 0 THEN 0
    ELSE 10 * NumVal(SubSeq(f, 1, Len(f) - 1)) + DigitVal(f[Len(f)])

\* The characters str.strip() removes (str.isspace()): tab to carriage
\* return, the separators 28-31, blank, and the spaces of Unicode.
Whitespace ==
    (9..13) \cup (28..32) \cup {133, 160, 5760} \cup (8192..8202)
    \cup {8232, 8233, 8239, 8287, 12288}

\* str.strip(): leading and trailing whitespace removed.
RECURSIVE strip(_)
strip(s) ==
    IF Len(s) = 0 THEN s
    ELSE IF s[1] \in Whitespace THEN strip(Tail(s))
    ELSE IF s[Len(s)] \in Whitespace THEN strip(SubSeq(s, 1, Len(s) - 1))
    ELSE s

IsLeap(y) == (y % 4 = 0 /\ y % 100 # 0) \/ y % 400 = 0

DaysInMonth(y, m) ==
    IF m = 2 THEN (IF IsLeap(y) THEN 29 ELSE 28)
    ELSE IF m \in {4, 6, 9, 11} THEN 30
    ELSE 31

\* The text a directive accepts.  A digit written out in a pattern is the
\* ASCII one; \d is any decimal digit.
\* %m is 1[0-2]|0[1-9]|[1-9]
MatchesMonth(f) ==
    \/ Len(f) = 2 /\ f[1] = 49 /\ f[2] \in 48..50
    \/ Len(f) = 2 /\ f[1] = 48 /\ f[2] \in Digits1to9
    \/ Len(f) = 1 /\ f[1] \in Digits1to9

\* %d is 3[0-1]|[1-2]\d|0[1-9]|[1-9]| [1-9]
MatchesDay(f) ==
    \/ Len(f) = 2 /\ f[1] = 51 /\ f[2] \in 48..49
    \/ Len(f) = 2 /\ f[1] \in 49..50 /\ f[2] \in Digits
    \/ Len(f) = 2 /\ f[1] = 48 /\ f[2] \in Digits1to9
    \/ Len(f) = 1 /\ f[1] \in Digits1to9
    \/ Len(f) = 2 /\ f[1] = 32 /\ f[2] \in Digits1to9

\* %Y is \d\d\d\d
MatchesYear(f) == Len(f) = 4 /\ AllDigits(f)

\* int() of the day, which skips the blank of " [1-9]".
DayVal(f) == IF f[1] = 32 THEN DigitVal(f[2]) ELSE NumVal(f)

\* The date <<year, month, day>> built from the three fields of the text, or
\* ValueError: a field its directive does not accept, or no such day.
date_of_fields(fm, fd, fy) ==
    IF ~(MatchesMonth(fm) /\ MatchesDay(fd) /\ MatchesYear(fy)) THEN ValueError
    ELSE LET y == NumVal(fy)
             m == NumVal(fm)
             d == DayVal(fd)
         IN  IF y < 1 \/ d > DaysInMonth(y, m) THEN ValueError
             ELSE <<y, m, d>>

\* Mutant: the text read day first, as '%d/%m/%Y'.
strptime_dmY(s) ==
    LET slashes == {i \in 1..Len(s) : s[i] = 47}
    IN  IF Cardinality(slashes) # 2 THEN ValueError
        ELSE LET i1 == CHOOSE i \in slashes : \A j \in slashes : i <= j
                 i2 == CHOOSE i \in slashes : \A j \in slashes : j <= i
             IN  date_of_fields(SubSeq(s, i1 + 1, i2 - 1),
                                SubSeq(s, 1, i1 - 1),
                                SubSeq(s, i2 + 1, Len(s)))

\* datetime.strptime(s, '%m/%d/%Y').date()
strptime_mdY(s) ==
    LET slashes == {i \in 1..Len(s) : s[i] = 47}
    IN  IF Cardinality(slashes) # 2 THEN ValueError
        ELSE LET i1 == CHOOSE i \in slashes : \A j \in slashes : i <= j
                 i2 == CHOOSE i \in slashes : \A j \in slashes : j <= i
             IN  date_of_fields(SubSeq(s, 1, i1 - 1),
                                SubSeq(s, i1 + 1, i2 - 1),
                                SubSeq(s, i2 + 1, Len(s)))

\* np.datetime_as_string(np.datetime64(d), unit='M'): 'YYYY-MM', the day dropped.
datetime_as_string_M(d) == Pad(d[1], 4) \o "-" \o Pad(d[2], 2)

\* Mutant: a date the pattern rejects is taken for January 2018.
obyrmonth_of_fallback(rawdate) ==
    LET formatdate == strptime_mdY(strip(rawdate))
    IN  IF formatdate = ValueError THEN <<"ok", "YM-2018-01">>
        ELSE <<"ok", "YM-" \o datetime_as_string_M(formatdate)>>

\* Lines 132-137: <<"ok", key>> with the key 'YM-YYYY-MM' of the observation
\* date, or the exception raised.  With standard_date the str is handed to
\* np.datetime_as_string as it is, which accepts datetime64 values only.
obyrmonth_of(rawdate) ==
    IF standard_date = FALSE
    THEN LET formatdate == strptime_mdY(strip(rawdate))
         IN  IF formatdate = ValueError THEN ValueError
             ELSE <<"ok", "YM-" \o datetime_as_string_M(formatdate)>>
    ELSE TypeError

(***************************************************************************)
(* The raster file and rasterio's view of it.                              *)
(***************************************************************************)
\* A raster of n bands of one variable ("temp" in Kelvin, "precip" in
\* metres): 2 x 2 cells of 10 units, its corner at (0, 20).
RasterOf(n, variable) ==
    [count |-> n, variable |-> variable,
     height |-> 2, width |-> 2, west |-> 0, north |-> 20, cell |-> 10]

\* The raw value of a cell (0-based row and column) of a band (1-based):
\* around 273.15 K, or around 0.001 m.  The temperature of cell (1, 0) of
\* band 1 converts to 2.20005, a decimal half for round(x, 4).
CellValue(r, band, row, col) ==
    IF r.variable = "precip"
    THEN 100 + 13 * band + 3 * row + col
    ELSE 27315000 + 100003 * band + 20002 * row + 7 * col

\* raster.index(x, y): the affine transform inverted, floored.  Nothing is
\* clamped.
raster_index(r, x, y) ==
    <<(r.north - y) \div r.cell, (x - r.west) \div r.cell>>

\* raster.read(band)[row, col] on the numpy array: an index in -n..-1 counts
\* from the far edge, one outside -n..n-1 raises IndexError.
array_item(r, band, row, col) ==
    IF row \in (-r.height)..(r.height - 1) /\ col \in (-r.width)..(r.width - 1)
    THEN Float(CellValue(r, band, row % r.height, col % r.width))
    ELSE IndexError

\* Mutant: a negative row or column passes.
outside_raster_no_negative(r, rrow, rcol) ==
    rrow >= r.height \/ rcol >= r.width

\* Mutant: the far edge is off by one.
outside_raster_off_by_one(r, rrow, rcol) ==
    rrow < 0 \/ rrow > r.height \/ rcol < 0 \/ rcol > r.width

\* Lines 120-121.
outside_raster(r, rrow, rcol) ==
    rrow < 0 \/ rrow >= r.height \/ rcol < 0 \/ rcol >= r.width

(***************************************************************************)
(* Inputs.                                                                 *)
(***************************************************************************)
VarNames == {"temp", "precip", "humidity"}

StartDates == {<<2018, 1>>, <<2018, 11>>}

IDs == {101, 102}

NameOf(id) == IF id = 101 THEN "Alpha" ELSE "Beta"

\* (x, y): in cell (0, 1), in cell (1, 0), north of the grid (row -1), east
\* of the grid (column 2).
Locations == {<<15, 17>>, <<3, 8>>, <<5, 25>>, <<23, 15>>}

\* " 12/03/2018 "
Date_12_03_2018 == <<32, 49, 50, 47, 48, 51, 47, 50, 48, 49, 56, 32>>
\* "1/15/2018" with a vertical tab in front and a newline behind, the 5 of
\* the day and the 8 of the year fullwidth digits
Date_1_15_2018 == <<11, 49, 47, 49, 65301, 47, 50, 48, 49, 65304, 10>>
\* "15/01/2019"
Date_15_01_2019 == <<49, 53, 47, 48, 49, 47, 50, 48, 49, 57>>

RawDates == {Date_12_03_2018, Date_1_15_2018, Date_15_01_2019}

PointRows ==
    { [id |-> i, name |-> NameOf(i), date |-> d, x |-> l[1], y |-> l[2]] :
        i \in IDs, d \in RawDates, l \in Locations }

RECURSIVE SeqsUpTo(_, _)
SeqsUpTo(S, n) ==
    IF n = 0 THEN {<<>>}
    ELSE LET shorter == SeqsUpTo(S, n - 1)
         IN  shorter \cup {Append(q, e) : q \in {t \in shorter : Len(t) = n - 1}, e \in S}

\* Assumption 2 of the script: the raster holds the variable varname names.
Rasters(vn) ==
    {RasterOf(n, IF vn = "precip" THEN "precip" ELSE "temp") : n \in 1..MaxBands}

(***************************************************************************)
(* The script.                                                             *)
(***************************************************************************)
\* Lines 74-80 have run: the start period is parsed and the points are read.
Init ==
    /\ varname \in VarNames
    /\ startdate \in StartDates
    /\ point_data \in SeqsUpTo(PointRows, MaxPoints)
    /\ raster \in Rasters(varname)
    /\ pc = "check_unique"
    /\ yearmonth = datetime64_M(startdate)
    /\ result_dict = <<>>
    /\ idx = 0
    /\ result_list = <<>>
    /\ opens = 0
    /\ reads = {}
    /\ csv = None
    /\ stdout = <<>>
    /\ exit_status = None
    /\ arg_value = None
    /\ newval = None

inputs == <<varname, startdate, point_data, raster>>
units == <<arg_value, newval>>

\* pandas Series.is_unique
is_unique(col) ==
    \A i, j \in 1..Len(col) : i # j => col[i] # col[j]

\* sys.exit() with no argument: SystemExit(None), exit status 0.
sys_exit == 0

\* An exception nobody catches: traceback, exit status 1.
Uncaught(e) ==
    /\ pc' = e[2]
    /\ exit_status' = 1

\* Mutant: the message is printed and the script goes on.
CheckUnique_no_exit ==
    /\ pc = "check_unique"
    /\ IF is_unique([i \in 1..Len(point_data) |-> point_data[i].id])
       THEN UNCHANGED stdout
       ELSE stdout' = Append(stdout, "FAIL: unique ID column in the input file contains duplicate values, cannot proceed.")
    /\ pc' = "check_varname"
    /\ UNCHANGED <<inputs, yearmonth, result_dict, idx, result_list, opens,
                   reads, csv, exit_status, units>>

\* Lines 83-87.
CheckUnique ==
    /\ pc = "check_unique"
    /\ IF is_unique([i \in 1..Len(point_data) |-> point_data[i].id])
       THEN /\ pc' = "check_varname"
            /\ UNCHANGED <<stdout, exit_status>>
       ELSE /\ stdout' = Append(stdout, "FAIL: unique ID column in the input file contains duplicate values, cannot proceed.")
            /\ exit_status' = sys_exit
            /\ pc' = "exited"
    /\ UNCHANGED <<inputs, yearmonth, result_dict, idx, result_list, opens,
                   reads, csv, units>>

\* Lines 89-93.
CheckVarname ==
    /\ pc = "check_varname"
    /\ IF varname \in {"temp", "precip"}
       THEN /\ pc' = "open_index"
            /\ UNCHANGED <<stdout, exit_status>>
       ELSE /\ stdout' = Append(stdout, "FAIL: variable name must be set to either \"temp\" or \"precip\"")
            /\ exit_status' = sys_exit
            /\ pc' = "exited"
    /\ UNCHANGED <<inputs, yearmonth, result_dict, idx, result_list, opens,
                   reads, csv, units>>

\* Lines 97-101: the empty result_dict, the raster opened for the indexing.
OpenIndex ==
    /\ pc = "open_index"
    /\ result_dict' = <<>>
    /\ opens' = opens + 1
    /\ idx' = 1
    /\ pc' = IF Len(point_data) = 0 THEN "open_sample" ELSE "index"
    /\ UNCHANGED <<inputs, yearmonth, result_list, reads, csv, stdout,
                   exit_status, units>>

\* Lines 102-110: one pass of the loop over the points.
IndexPoint ==
    /\ pc = "index"
    /\ LET p == point_data[idx]
           rc == raster_index(raster, p.x, p.y)
       IN  result_dict' = DictSet(result_dict, p.id,
                                  << <<obname, p.name>>,
                                     <<obdate, p.date>>,
                                     <<"RASTER_ROW", rc[1]>>,
                                     <<"RASTER_COL", rc[2]>> >>)
    /\ idx' = idx + 1
    /\ pc' = IF idx = Len(point_data) THEN "open_sample" ELSE "index"
    /\ UNCHANGED <<inputs, yearmonth, result_list, opens, reads, csv, stdout,
                   exit_status, units>>

\* Lines 114-115: the raster opened again for the sampling.
OpenSample ==
    /\ pc = "open_sample"
    /\ opens' = opens + 1
    /\ idx' = 1
    /\ pc' = IF raster.count = 0
             THEN (IF Len(result_dict) = 0 THEN "assemble" ELSE "match")
             ELSE "sample"
    /\ UNCHANGED <<inputs, yearmonth, result_dict, result_list, reads, csv,
                   stdout, exit_status, units>>

\* Lines 118-126 for one point: the value stored under the period of the
\* band; above is the side of a decimal half the converted float lies on.
sample_value(r, vn, band, rrow, rcol, above) ==
    IF outside_raster(r, rrow, rcol) THEN None
    ELSE LET climval == array_item(r, band, rrow, rcol)
         IN  IF climval[1] = "raise" THEN climval
             ELSE Float(round4(convert_units(vn, climval[2]), above))

\* The value read for the point converts to a decimal half of round(x, 4).
is_half(r, vn, band, rrow, rcol) ==
    /\ ~outside_raster(r, rrow, rcol)
    /\ array_item(r, band, rrow, rcol)[1] = "float"
    /\ convert_units(vn, array_item(r, band, rrow, rcol)[2]) % 10 = 5

\* Lines 116-127: one pass of the loop over the bands, the loop over the
\* points inside it, then the period moved on one month.
SampleBand ==
    /\ pc = "sample"
    /\ LET n == Len(result_dict)
           row(i) == DictGet(result_dict[i][2], "RASTER_ROW")
           col(i) == DictGet(result_dict[i][2], "RASTER_COL")
           cell(i) == <<row(i) % raster.height, col(i) % raster.width>>
           halves == {cell(i) : i \in
                         {j \in 1..n : is_half(raster, varname, idx, row(j), col(j))}}
       IN  \E above \in [halves -> BOOLEAN] :
           LET val(i) == sample_value(raster, varname, idx, row(i), col(i),
                                      cell(i) \in halves /\ above[cell(i)])
               failed == {i \in 1..n : val(i)[1] = "raise"}
               last == IF failed = {} THEN n
                       ELSE CHOOSE i \in failed : \A j \in failed : i <= j
           IN
           /\ reads' = reads \cup
                  {<<idx, row(i), col(i)>> : i \in
                      {j \in 1..last : ~outside_raster(raster, row(j), col(j))}}
           /\ IF failed = {}
              THEN /\ result_dict' =
                          [i \in 1..n |->
                              <<result_dict[i][1],
                                DictSet(result_dict[i][2], period_key(yearmonth), val(i))>>]
                   /\ yearmonth' = yearmonth + 1
                   /\ idx' = IF idx < raster.count THEN idx + 1 ELSE 1
                   /\ pc' = IF idx < raster.count THEN "sample"
                            ELSE IF n = 0 THEN "assemble" ELSE "match"
                   /\ UNCHANGED exit_status
              ELSE /\ Uncaught(val(last))
                   /\ UNCHANGED <<result_dict, yearmonth, idx>>
    /\ UNCHANGED <<inputs, result_list, opens, csv, stdout, units>>

\* Mutant: a period the record lacks takes the value of the last column.
match_lookup_last(v, key) ==
    IF DictHas(v, key) THEN DictGet(v, key) ELSE v[Len(v)][2]

\* Lines 138-141.
match_lookup(v, key) ==
    IF DictHas(v, key) THEN DictGet(v, key) ELSE None

\* Lines 131-142: one pass of the loop over the records.
MatchPoint ==
    /\ pc = "match"
    /\ LET k == result_dict[idx][1]
           v == result_dict[idx][2]
           obyrmonth == obyrmonth_of(DictGet(v, obdate))
       IN  IF obyrmonth[1] = "raise"
           THEN /\ Uncaught(obyrmonth)
                /\ UNCHANGED <<result_dict, idx>>
           ELSE LET matchdate == match_lookup(v, obyrmonth[2])
                IN  /\ result_dict' =
                           [result_dict EXCEPT
                               ![idx] = <<k, DictSet(v, "MATCH_VALUE", matchdate)>>]
                    /\ idx' = idx + 1
                    /\ pc' = IF idx = Len(result_dict) THEN "assemble" ELSE "match"
                    /\ UNCHANGED exit_status
    /\ UNCHANGED <<inputs, yearmonth, result_list, opens, reads, csv, stdout,
                   units>>

\* Lines 145-153: the header from the first record, one row per record.
\* next(iter({})) raises StopIteration.
Assemble ==
    /\ pc = "assemble"
    /\ IF Len(result_dict) = 0
       THEN /\ Uncaught(StopIteration)
            /\ UNCHANGED result_list
       ELSE LET header == <<obnum>> \o DictKeys(result_dict[1][2])
                record(i) == <<result_dict[i][1]>> \o DictValues(result_dict[i][2])
            IN  /\ result_list' =
                       <<header>> \o [i \in 1..Len(result_dict) |-> record(i)]
                /\ pc' = "plot"
                /\ UNCHANGED exit_status
    /\ UNCHANGED <<inputs, yearmonth, result_dict, idx, opens, reads, csv,
                   stdout, units>>

\* Lines 156-160: the raster opened a third time, its first band shown.
Plot ==
    /\ pc = "plot"
    /\ opens' = opens + 1
    /\ IF raster.count >= 1
       THEN pc' = "write" /\ UNCHANGED exit_status
       ELSE Uncaught(IndexError)
    /\ UNCHANGED <<inputs, yearmonth, result_dict, idx, result_list, reads,
                   csv, stdout, units>>

\* Lines 163-172: the rows handed to csv.writer, the closing message; the
\* script ends.
WriteCSV ==
    /\ pc = "write"
    /\ csv' = result_list
    /\ stdout' = Append(stdout,
                    "Done, wrote " \o ToString(Len(result_list)) \o " rows with "
                    \o ToString(Len(result_list[1])) \o " values for " \o varname
                    \o " data")
    /\ exit_status' = 0
    /\ pc' = "done"
    /\ UNCHANGED <<inputs, yearmonth, result_dict, idx, result_list, opens,
                   reads, units>>

Next ==
    \/ CheckUnique
    \/ CheckVarname
    \/ OpenIndex
    \/ IndexPoint
    \/ OpenSample
    \/ SampleBand
    \/ MatchPoint
    \/ Assemble
    \/ Plot
    \/ WriteCSV

Spec == Init /\ [][Next]_vars

(***************************************************************************)
(* convert_units alone, over a bounded set of raw values.                  *)
(***************************************************************************)
\* Raw values around 0.001 and around 273.15; a precipitation of hundreds of
\* metres is left out.
RawValues(vn) ==
    (0..MaxRaw) \cup
    (IF vn = "precip" THEN {} ELSE {27315000 + d : d \in (-MaxRaw)..MaxRaw})

InitUnits ==
    /\ varname \in VarNames
    /\ arg_value \in RawValues(varname)
    /\ newval = None
    /\ pc = "convert_units"
    /\ startdate = <<2018, 1>>
    /\ point_data = <<>>
    /\ raster = RasterOf(1, "temp")
    /\ yearmonth = datetime64_M(startdate)
    /\ result_dict = <<>>
    /\ idx = 0
    /\ result_list = <<>>
    /\ opens = 0
    /\ reads = {}
    /\ csv = None
    /\ stdout = <<>>
    /\ exit_status = None

ConvertUnits ==
    /\ pc = "convert_units"
    /\ newval' = convert_units(varname, arg_value)
    /\ pc' = "converted"
    /\ UNCHANGED <<inputs, yearmonth, result_dict, idx, result_list, opens,
                   reads, csv, stdout, exit_status, arg_value>>

NextUnits == ConvertUnits

SpecUnits == InitUnits /\ [][NextUnits]_vars

(***************************************************************************)
(* What the claims speak of.                                               *)
(***************************************************************************)
\* The script has stopped on an exception nobody caught.
Aborted == pc \in {"ValueError", "TypeError", "IndexError", "StopIteration"}

\* The table is assembled.
Assembled == pc \in {"plot", "write", "done"}

\* The sampling loop is over.
Sampled == Assembled \/ pc \in {"match", "assemble", "ValueError", "StopIteration"}

\* Bands the sampling loop has gone through.
BandsDone ==
    IF Sampled THEN raster.count
    ELSE IF pc = "sample" THEN idx - 1
    ELSE 0

HasDuplicateID ==
    \E i, j \in 1..Len(point_data) : i # j /\ point_data[i].id = point_data[j].id

PreconditionFails == HasDuplicateID \/ varname \notin {"temp", "precip"}

\* 'YYYY-MM' of the period i - 1 calendar months after S = <<year, month>>.
ExpectedLabel(S, i) ==
    LET months == (S[2] - 1) + (i - 1)
        mo == (months % 12) + 1
    IN  ToString(S[1] + (months \div 12)) \o "-"
        \o (IF mo < 10 THEN "0" ELSE "") \o ToString(mo)

ExpectedKeys(S, n) == [i \in 1..n |-> "YM-" \o ExpectedLabel(S, i)]

FixedKeys == {obname, obdate, "RASTER_ROW", "RASTER_COL", "MATCH_VALUE"}

IsPeriodKey(k) == k \notin FixedKeys

PeriodKeys(rec) == SelectSeq(DictKeys(rec), IsPeriodKey)

\* The dates of the inputs that month/day/year accepts, and their periods.
WellFormed == {Date_12_03_2018, Date_1_15_2018}

ExpectedPeriod(d) == IF d = Date_12_03_2018 THEN "YM-2018-12" ELSE "YM-2018-01"

OutsideGrid(row, col) ==
    row < 0 \/ row >= raster.height \/ col < 0 \/ col >= raster.width

Header == result_list[1]

DataRows == 2..Len(result_list)

InHeader(key) == \E j \in 1..Len(Header) : Header[j] = key

ColumnOf(key) == CHOOSE j \in 1..Len(Header) : Header[j] = key

IsFloat(v) == v[1] = "float"

(***************************************************************************)
(* C1: convert_units gives raw - 273.15 for 'temp', raw * 1000 for         *)
(* 'precip' and raw itself for any other kind, for every raw value tried.  *)
(***************************************************************************)
C1_ConvertUnitsAsSpecified ==
    pc = "converted" =>
        newval = (IF varname = "temp" THEN arg_value - 27315000
                  ELSE IF varname = "precip" THEN arg_value * 1000
                  ELSE arg_value)

(***************************************************************************)
(* C2: with a duplicate unique ID or a variable kind other than 'temp' and *)
(* 'precip' the run ends at the precondition checks: the raster is never   *)
(* opened or read and no CSV file is written.                              *)
(***************************************************************************)
C2_PreconditionStopsBeforeRasterIO ==
    PreconditionFails =>
        /\ pc \in {"check_unique", "check_varname", "exited"}
        /\ opens = 0
        /\ reads = {}
        /\ result_dict = <<>>
        /\ csv = None

C2_Witness ==
    /\ pc = "exited"
    /\ HasDuplicateID
    /\ varname = "temp"
    /\ Len(stdout) = 1

(***************************************************************************)
(* C3: a precondition failure ends the run with a message and a non-zero   *)
(* exit status; only a run that completes ends with exit status zero.      *)
(***************************************************************************)
C3_PreconditionExitsNonZero ==
    /\ pc = "exited" => Len(stdout) > 0 /\ exit_status # 0
    /\ (pc = "exited" \/ Aborted) => exit_status # 0

(***************************************************************************)
(* C4: after b bands the period counter stands b months after the start    *)
(* period, whatever the number of points, and every record holds exactly   *)
(* the b period labels start, start + 1 month, ..., in that order, as      *)
(* YYYY-MM with January of the next year after December.                   *)
(***************************************************************************)
C4_PeriodLabels ==
    /\ yearmonth = (startdate[1] - 1970) * 12 + (startdate[2] - 1) + BandsDone
    /\ \A i \in 1..Len(result_dict) :
           PeriodKeys(result_dict[i][2]) = ExpectedKeys(startdate, BandsDone)

C4_Witness ==
    /\ pc = "done"
    /\ startdate = <<2018, 11>>
    /\ raster.count >= 3
    /\ Len(result_dict) = 2
    /\ PeriodKeys(result_dict[2][2])[3] = "YM-2019-01"

(***************************************************************************)
(* C5: a point whose cell address is outside the grid has null under every *)
(* period label and a null MATCH_VALUE, whatever its observation date.     *)
(***************************************************************************)
C5_OutsideGridAllNull ==
    Assembled =>
        \A i \in DataRows :
            LET r == result_list[i]
            IN  OutsideGrid(r[4], r[5]) =>
                    /\ Len(r) = raster.count + 6
                    /\ \A j \in 6..Len(r) : r[j] = None

C5_Witness ==
    /\ pc = "done"
    /\ \E i \in DataRows :
           /\ csv[i][4] < 0
           /\ InHeader(ExpectedPeriod(csv[i][3]))
           /\ csv[i][3] \in WellFormed
    /\ \E i \in DataRows : csv[i][5] >= raster.width

(***************************************************************************)
(* C6: a date is read as month/day/year ("03/15/2019" is period 2019-03);  *)
(* when that period was sampled, MATCH_VALUE is the value of the point's   *)
(* own record under that period: the converted, rounded value of its cell  *)
(* in that band.                                                           *)
(***************************************************************************)
C6_MatchValueIsOwnPeriodValue ==
    /\ obyrmonth_of(<<48, 51, 47, 49, 53, 47, 50, 48, 49, 57>>)
           = <<"ok", "YM-2019-03">>
    /\ Assembled =>
           \A i \in DataRows :
               LET r == result_list[i]
                   key == ExpectedPeriod(r[3])
               IN  (r[3] \in WellFormed /\ InHeader(key)) =>
                       /\ r[Len(r)] = r[ColumnOf(key)]
                       /\ ~OutsideGrid(r[4], r[5]) =>
                              LET x == convert_units(varname,
                                           CellValue(raster, ColumnOf(key) - 5, r[4], r[5]))
                              IN  r[Len(r)] \in {Float(round4(x, FALSE)),
                                                 Float(round4(x, TRUE))}

C6_Witness ==
    /\ pc = "done"
    /\ Len(csv) = 3
    /\ csv[2][3] = Date_12_03_2018
    /\ csv[3][3] = Date_12_03_2018
    /\ IsFloat(csv[2][Len(csv[2])])
    /\ IsFloat(csv[3][Len(csv[3])])
    /\ csv[2][Len(csv[2])] # csv[3][Len(csv[3])]

(***************************************************************************)
(* C7: a point whose observation month is before the first band or after   *)
(* the last has a null MATCH_VALUE and yet one entry per band (non-null in *)
(* the grid); the run is not aborted on its account: it aborts only on a   *)
(* date the pattern rejects or on an empty dataset.                        *)
(***************************************************************************)
C7_OutOfRangeDateNullMatch ==
    /\ Assembled =>
           \A i \in DataRows :
               LET r == result_list[i]
               IN  (r[3] \in WellFormed /\ ~InHeader(ExpectedPeriod(r[3]))) =>
                       /\ Len(r) = raster.count + 6
                       /\ r[Len(r)] = None
                       /\ ~OutsideGrid(r[4], r[5]) =>
                              \A j \in 6..(Len(r) - 1) : IsFloat(r[j])
    /\ Aborted =>
           \/ pc = "StopIteration" /\ Len(point_data) = 0
           \/ pc = "ValueError" /\ point_data[idx].date \notin WellFormed

C7_Witness ==
    /\ pc = "done"
    /\ \E i \in DataRows :
           /\ csv[i][3] \in WellFormed
           /\ ~InHeader(ExpectedPeriod(csv[i][3]))
           /\ ~OutsideGrid(csv[i][4], csv[i][5])
           /\ csv[i][Len(csv[i])] = None
           /\ IsFloat(csv[i][6])

(***************************************************************************)
(* C8: the table of a run over P >= 1 points and N bands is one header row *)
(* and P data rows in the order of the dataset; the header is the ID,      *)
(* name and date columns, RASTER_ROW, RASTER_COL, the N periods in         *)
(* chronological order and MATCH_VALUE; every row has N + 6 fields, each   *)
(* under its column.                                                       *)
(***************************************************************************)
C8_TableShape ==
    Assembled =>
        /\ Len(point_data) >= 1
        /\ Len(result_list) = Len(point_data) + 1
        /\ Header = <<obnum, obname, obdate, "RASTER_ROW", "RASTER_COL">>
                    \o ExpectedKeys(startdate, raster.count)
                    \o <<"MATCH_VALUE">>
        /\ \A i \in 1..Len(point_data) :
               LET r == result_list[i + 1]
                   p == point_data[i]
               IN  /\ Len(r) = raster.count + 6
                   /\ r[1] = p.id
                   /\ r[2] = p.name
                   /\ r[3] = p.date
                   /\ r[4] = (raster.north - p.y) \div raster.cell
                   /\ r[5] = (p.x - raster.west) \div raster.cell
                   /\ \A j \in 6..Len(r) : r[j] = None \/ IsFloat(r[j])
        /\ pc = "done" => csv = result_list

C8_Witness ==
    /\ pc = "done"
    /\ Len(point_data) = 2
    /\ raster.count >= 3
    /\ Len(csv) = 3
    /\ csv[2][1] = 102
    /\ csv[3][1] = 101

(***************************************************************************)
(* C9: a date the pattern rejects is never passed over in silence: the run *)
(* aborts at the resolution of such a date with no file written, or the    *)
(* file holds the point's full row with a null MATCH_VALUE.                *)
(***************************************************************************)
C9_MalformedDateNeverSilent ==
    /\ pc # "done" => csv = None
    /\ pc = "ValueError" => point_data[idx].date \notin WellFormed
    /\ pc = "done" =>
           /\ Len(csv) = Len(point_data) + 1
           /\ \A i \in 1..Len(point_data) :
                  point_data[i].date \notin WellFormed =>
                      /\ csv[i + 1][1] = point_data[i].id
                      /\ Len(csv[i + 1]) = raster.count + 6
                      /\ csv[i + 1][Len(csv[i + 1])] = None

C9_Witness ==
    /\ pc = "ValueError"
    /\ idx = 2
    /\ point_data[1].date \in WellFormed
    /\ point_data[2].date = Date_15_01_2019
    /\ csv = None
    /\ exit_status = 1

(***************************************************************************)
(* C10: the sampling loop reads the grid only at addresses inside it, so   *)
(* no negative row or column wraps around; a point is inside for every     *)
(* band or for none: its series is all null or all non-null.               *)
(***************************************************************************)
C10_ReadsInsideGrid ==
    /\ \A a \in reads :
           /\ a[1] \in 1..raster.count
           /\ a[2] \in 0..(raster.height - 1)
           /\ a[3] \in 0..(raster.width - 1)
    /\ ~Aborted
       => \A i \in 1..Len(result_dict) :
           LET rec == result_dict[i][2]
               keys == PeriodKeys(rec)
           IN  /\ Len(keys) = BandsDone
               /\ \A j \in 1..Len(keys) :
                      IF OutsideGrid(DictGet(rec, "RASTER_ROW"), DictGet(rec, "RASTER_COL"))
                      THEN DictGet(rec, keys[j]) = None
                      ELSE /\ IsFloat(DictGet(rec, keys[j]))
                           /\ <<j, DictGet(rec, "RASTER_ROW"), DictGet(rec, "RASTER_COL")>>
                                  \in reads

C10_Witness ==
    /\ pc = "done"
    /\ Cardinality(reads) = raster.count
    /\ raster.count >= 2
    /\ \E i \in 1..Len(result_dict) : DictGet(result_dict[i][2], "RASTER_ROW") < 0
    /\ \E i \in 1..Len(result_dict) : DictGet(result_dict[i][2], "RASTER_ROW") = 0
=============================================================================
